---------------------------- MODULE Spec2Model ----------------------------
(***************************************************************************)
(* dso-vocabulary-replacer (src/main.py): main, load_vocabulary and        *)
(* replace_terms as one sequential state machine.                          *)
(*                                                                         *)
(* A string is a sequence of one-character strings.  A Python dict is a    *)
(* sequence of <<key, value>> pairs with distinct keys, in insertion       *)
(* order (the order dict iteration follows).  None is a value that is no   *)
(* string.  What the environment decides (whether a file exists, whether   *)
(* an open, a read or a write raises, which line comes next, what the      *)
(* encoding detector and the name generator answer) is chosen              *)
(* nondeterministically at the step that asks for it.                      *)
(***************************************************************************)
EXTENDS Integers, Sequences, FiniteSets

\* ------------------------------------------------------------ bounds
MaxLineLen == 3
MaxLines == 2
MaxDocLen == 3

\* ------------------------------------------------------------ strings
Chars == {"a", ",", " "}
DocChars == {"a", " "}
Whitespace == {" "}

None == <<"None">>

RECURSIVE StringsUpTo(_, _)
StringsUpTo(alphabet, n) ==
    IF n = 0 THEN {<<>>}
    ELSE LET shorter == StringsUpTo(alphabet, n - 1)
         IN shorter \cup {Append(s, c) : s \in {t \in shorter : Len(t) = n - 1}, c \in alphabet}

ExampleLine == <<"J", "o", "h", "n", " ", "S", "m", "i", "t", "h", ",", "R", "E", "D", "A", "C", "T", "E", "D">>
ExampleDoc == <<"H", "e", "l", "l", "o", ",", " ", "J", "o", "h", "n", " ", "S", "m", "i", "t", "h", ".", " ", "J", "o", "h", "n", " ", "S", "m", "i", "t", "h", " ", "s", "a", "i", "d", " ", "h", "i", ".">>

\* The inputs of a run come from one of two families: every vocabulary
\* line and every document within the bounds, or the scenario of the
\* specification's section 8 (the vocabulary line ExampleLine, the document
\* ExampleDoc).  Lines are without their line ends, which strip() removes
\* with the other whitespace.
BoundedLines == StringsUpTo(Chars, MaxLineLen)
BoundedDocs == StringsUpTo(DocChars, MaxDocLen)

\* fake.name(): some non-empty string, of the generator's choosing.
FakeNames == {<<"a">>, <<"b">>}

\* str.strip(): drop the whitespace at both ends.
RECURSIVE LStrip(_)
LStrip(s) ==
    IF s # <<>> /\ Head(s) \in Whitespace THEN LStrip(Tail(s)) ELSE s

RECURSIVE RStrip(_)
RStrip(s) ==
    IF s # <<>> /\ s[Len(s)] \in Whitespace THEN RStrip(SubSeq(s, 1, Len(s) - 1)) ELSE s

Strip(s) == RStrip(LStrip(s))

\* str.split(sep) for a one-character sep: the parts between the separators,
\* empty parts kept; a string without sep gives one part.
RECURSIVE SplitFrom(_, _, _, _)
SplitFrom(s, sep, i, cur) ==
    IF i > Len(s) THEN <<cur>>
    ELSE IF s[i] = sep THEN <<cur>> \o SplitFrom(s, sep, i + 1, <<>>)
    ELSE SplitFrom(s, sep, i + 1, Append(cur, s[i]))

Split(s, sep) == SplitFrom(s, sep, 1, <<>>)

\* ------------------------------------------------------------ dict
DictKeys(d) == {d[i][1] : i \in DOMAIN d}

\* A dict update that keeps the first value a key was given.
DictSetFirstWins(d, k, v) ==
    IF k \in DictKeys(d) THEN d ELSE Append(d, <<k, v>>)

\* d[k] = v: a present key keeps its place and takes the new value, a new
\* key goes to the end.
DictSet(d, k, v) ==
    IF k \in DictKeys(d)
    THEN [i \in DOMAIN d |-> IF d[i][1] = k THEN <<k, v>> ELSE d[i]]
    ELSE Append(d, <<k, v>>)


\* ------------------------------------------------------------ str.replace
\* new before every character of s and after the last.
Interleave(s, new) ==
    LET step == Len(new) + 1
    IN [k \in 1..(Len(s) * step + Len(new)) |->
            IF (k - 1) % step < Len(new) THEN new[((k - 1) % step) + 1]
            ELSE s[((k - 1) \div step) + 1]]

RECURSIVE ReplaceFrom(_, _, _, _)
ReplaceFrom(s, old, new, i) ==
    IF i > Len(s) THEN <<>>
    ELSE IF i + Len(old) - 1 <= Len(s) /\ SubSeq(s, i, i + Len(old) - 1) = old
         THEN new \o ReplaceFrom(s, old, new, i + Len(old))
         ELSE <<s[i]>> \o ReplaceFrom(s, old, new, i + 1)

RECURSIVE ReplaceFirstFrom(_, _, _, _)
ReplaceFirstFrom(s, old, new, i) ==
    IF i > Len(s) THEN <<>>
    ELSE IF i + Len(old) - 1 <= Len(s) /\ SubSeq(s, i, i + Len(old) - 1) = old
         THEN new \o SubSeq(s, i + Len(old), Len(s))
         ELSE <<s[i]>> \o ReplaceFirstFrom(s, old, new, i + 1)

\* A replace that stops after the first occurrence (str.replace(old, new, 1)).
ReplaceFirst(s, old, new) ==
    IF old = <<>> THEN new \o s ELSE ReplaceFirstFrom(s, old, new, 1)

\* s.replace(old, new) with both strings: every occurrence found scanning
\* from the left, the scan resuming after each one; an empty old is found
\* before every character and at the end.
Replace(s, old, new) ==
    IF old = <<>> THEN Interleave(s, new) ELSE ReplaceFrom(s, old, new, 1)

\* ------------------------------------------------------------ state
VARIABLES
    inputs,         \* the family this run's files come from: "bounded" or "example"
    pc,             \* where the run is
    line,           \* load_vocabulary: the line of the current iteration, stripped or not yet
    vocabulary,     \* load_vocabulary: the dict being filled
    warnings,       \* logging.warning calls so far
    nread,          \* lines the loop has taken from the file
    lastWins,       \* history: for each term a kept line named, the value of the last such line
    nkept,          \* history: iterations that stored an entry (line 64 or 67)
    mainVocabulary, \* main: what load_vocabulary returned
    randomize,      \* replace_terms: the flag it was called with
    rawdata,        \* replace_terms: the bytes read for the detector: "unread", "empty", "bytes"
    document,       \* history: the decoded text of the input file
    encoding,       \* replace_terms: the detector's answer
    text,           \* replace_terms: the text being transformed
    idx,            \* replace_terms: entries of the vocabulary already iterated
    genCalls,       \* fake.name() calls so far
    prevText,       \* history: text before the last randomized replacement
    lastName,       \* history: the name the last fake.name() call returned
    outFile,        \* the output path: untouched, empty (created or truncated), partial, written
    outContent,     \* what was written to the output file
    rtResult,       \* what replace_terms returned
    logged,         \* the error or success message the run logged, if any
    exitCode        \* the process exit code, -1 while running

Lines == IF inputs = "example" THEN {ExampleLine} ELSE BoundedLines
Docs == IF inputs = "example" THEN {ExampleDoc} ELSE BoundedDocs

loadVars == <<line, vocabulary, warnings, nread, lastWins, nkept>>
rtVars == <<randomize, rawdata, document, encoding, text, idx, genCalls, prevText, lastName, outFile, outContent, rtResult>>
vars == <<inputs, pc, loadVars, mainVocabulary, rtVars, logged, exitCode>>

\* main's vocabulary variable: not yet assigned, None, or a dict.
Unassigned == [kind |-> "unassigned", dict |-> <<>>]
NoDict == [kind |-> "None", dict |-> <<>>]
SomeDict(d) == [kind |-> "dict", dict |-> d]

Init ==
    /\ inputs \in {"bounded", "example"}
    /\ pc = "main"
    /\ line = <<>>
    /\ vocabulary = <<>>
    /\ warnings = 0
    /\ nread = 0
    /\ lastWins = {}
    /\ nkept = 0
    /\ mainVocabulary = Unassigned
    /\ randomize = FALSE
    /\ rawdata = "unread"
    /\ document = <<>>
    /\ encoding = "unset"
    /\ text = <<>>
    /\ idx = 0
    /\ genCalls = 0
    /\ prevText = <<>>
    /\ lastName = <<>>
    /\ outFile = "untouched"
    /\ outContent = <<>>
    /\ rtResult = -1
    /\ logged = "nothing"
    /\ exitCode = -1

\* ------------------------------------------------------------ main, before the load
\* sys.exit(code)
Exit(code) ==
    /\ pc' = "exit"
    /\ exitCode' = code

\* main, lines 131-133: os.path.exists(args.input_file)
MainCheckInput ==
    /\ pc = "main"
    /\ \E exists \in BOOLEAN :
          IF exists
          THEN /\ pc' = "main_vocabulary"
               /\ UNCHANGED <<logged, exitCode>>
          ELSE /\ logged' = "Input file does not exist"
               /\ Exit(1)
    /\ UNCHANGED <<inputs, loadVars, mainVocabulary, rtVars>>

\* main, lines 134-136: os.path.exists(args.vocabulary_file)
MainCheckVocabulary ==
    /\ pc = "main_vocabulary"
    /\ \E exists \in BOOLEAN :
          IF exists
          THEN /\ pc' = "load_open"
               /\ UNCHANGED <<logged, exitCode>>
          ELSE /\ logged' = "Vocabulary file does not exist"
               /\ Exit(1)
    /\ UNCHANGED <<inputs, loadVars, mainVocabulary, rtVars>>

\* ------------------------------------------------------------ load_vocabulary
\* An iteration that takes the first two fields of a line with more.
VocabularyAfterLineLenient(d, l) ==
    LET stripped == Strip(l)
        parts == Split(stripped, ",")
    IN IF stripped = <<>> THEN d
       ELSE IF Len(parts) >= 2 THEN DictSet(d, Strip(parts[1]), Strip(parts[2]))
       ELSE DictSet(d, Strip(parts[1]), None)

\* The body of one iteration of the loop, lines 58-69, as what it does to the
\* dict and to the count of warnings.
VocabularyAfterLine(d, l) ==
    LET stripped == Strip(l)
        parts == Split(stripped, ",")
    IN IF stripped = <<>> THEN d
       ELSE IF Len(parts) = 2 THEN DictSet(d, Strip(parts[1]), Strip(parts[2]))
       ELSE IF Len(parts) = 1 THEN DictSet(d, Strip(parts[1]), None)
       ELSE d

WarningsAfterLine(w, l) ==
    LET stripped == Strip(l)
    IN IF stripped # <<>> /\ Len(Split(stripped, ",")) > 2 THEN w + 1 ELSE w

\* Whether the iteration reaches one of the two assignments, line 64 or 67.
StoresEntry(l) ==
    LET stripped == Strip(l)
    IN stripped # <<>> /\ Len(Split(stripped, ",")) \in {1, 2}

\* A handler that hands back what had been parsed so far.
ReturnOnErrorPartial(d) == SomeDict(d)

\* What load_vocabulary hands back when an exception ends it (lines 70-75).
ReturnOnError(d) == NoDict

\* line 56: open(vocabulary_file, 'r', encoding='utf-8')
LoadOpen ==
    /\ pc = "load_open"
    /\ \E outcome \in {"ok", "FileNotFoundError", "Exception"} :
          \/ /\ outcome = "ok"
             /\ pc' = "load_loop"
             /\ UNCHANGED <<mainVocabulary, logged>>
          \/ /\ outcome = "FileNotFoundError"
             /\ logged' = "Vocabulary file not found"
             /\ mainVocabulary' = ReturnOnError(vocabulary)
             /\ pc' = "main_loaded"
          \/ /\ outcome = "Exception"
             /\ logged' = "Error loading vocabulary file"
             /\ mainVocabulary' = ReturnOnError(vocabulary)
             /\ pc' = "main_loaded"
    /\ UNCHANGED <<inputs, loadVars, rtVars, exitCode>>

\* The vocabulary file's format as the specification words it, for the
\* history variable lastWins: the entry a line stands for, if any.
Trim(s) ==
    LET solid == {i \in 1..Len(s) : s[i] \notin Whitespace}
    IN IF solid = {} THEN <<>>
       ELSE SubSeq(s, CHOOSE i \in solid : \A j \in solid : i <= j,
                      CHOOSE i \in solid : \A j \in solid : i >= j)

Commas(s) == {i \in 1..Len(s) : s[i] = ","}

IsBlank(l) == \A i \in 1..Len(l) : l[i] \in Whitespace

IsSingleField(l) == ~IsBlank(l) /\ Commas(l) = {}

IsTwoField(l) == Cardinality(Commas(l)) = 1

IsMalformed(l) == Cardinality(Commas(l)) >= 2

LineEntry(l) ==
    IF IsSingleField(l) THEN {<<Trim(l), None>>}
    ELSE IF IsTwoField(l)
         THEN LET c == CHOOSE i \in Commas(l) : TRUE
              IN {<<Trim(SubSeq(l, 1, c - 1)), Trim(SubSeq(l, c + 1, Len(l)))>>}
         ELSE {}

LastWinsAfter(m, l) ==
    {p \in m : \A e \in LineEntry(l) : p[1] # e[1]} \cup LineEntry(l)

\* lines 57-69: the loop takes the next line of the file and handles it.
LoadLine ==
    /\ pc = "load_loop"
    /\ nread < MaxLines
    /\ \E l \in Lines :
          /\ line' = l
          /\ vocabulary' = VocabularyAfterLine(vocabulary, l)
          /\ warnings' = WarningsAfterLine(warnings, l)
          /\ lastWins' = LastWinsAfter(lastWins, l)
          /\ nkept' = (IF StoresEntry(l) THEN nkept + 1 ELSE nkept)
    /\ nread' = nread + 1
    /\ UNCHANGED <<inputs, pc, mainVocabulary, rtVars, logged, exitCode>>

\* lines 73-75: reading or decoding the next line raises.  The loop variable
\* ends with the function.
LoadReadError ==
    /\ pc = "load_loop"
    /\ logged' = "Error loading vocabulary file"
    /\ mainVocabulary' = ReturnOnError(vocabulary)
    /\ pc' = "main_loaded"
    /\ line' = <<>>
    /\ UNCHANGED <<inputs, vocabulary, warnings, nread, lastWins, nkept, rtVars, exitCode>>

\* line 76: the file is exhausted.
LoadReturn ==
    /\ pc = "load_loop"
    /\ mainVocabulary' = SomeDict(vocabulary)
    /\ pc' = "main_loaded"
    /\ line' = <<>>
    /\ UNCHANGED <<inputs, vocabulary, warnings, nread, lastWins, nkept, rtVars, logged, exitCode>>

\* ------------------------------------------------------------ main, after the load
\* lines 139-142
MainAfterLoad ==
    /\ pc = "main_loaded"
    /\ IF mainVocabulary.kind = "None"
       THEN /\ Exit(1)
            /\ UNCHANGED randomize
       ELSE /\ pc' = "rt_detect"
            /\ randomize' \in BOOLEAN
            /\ UNCHANGED exitCode
    /\ UNCHANGED <<inputs, loadVars, mainVocabulary, rawdata, document, encoding, text, idx, genCalls,
                   prevText, lastName, outFile, outContent, rtResult, logged>>

\* ------------------------------------------------------------ replace_terms
\* An exit that drops replace_terms' result.
ExitStatusZero(result) == 0

\* lines 142-143: exit_code = replace_terms(...); sys.exit(exit_code)
ExitStatus(result) == result

\* return code, from inside the try or from a handler; main exits with it.
Return(code) ==
    /\ rtResult' = code
    /\ Exit(ExitStatus(code))

\* lines 90-93: the raw bytes are read and the detector names an encoding, or
\* None; for no bytes at all it names None.
RtDetect ==
    /\ pc = "rt_detect"
    /\ \E outcome \in {"ok", "FileNotFoundError", "Exception"} :
          \/ /\ outcome = "ok"
             /\ \E d \in Docs :
                   /\ rawdata' = (IF d = <<>> THEN "empty" ELSE "bytes")
                   /\ encoding' \in (IF d = <<>> THEN {"None"} ELSE {"None", "detected"})
             /\ pc' = "rt_open"
             /\ UNCHANGED <<rtResult, logged, exitCode>>
          \/ /\ outcome = "FileNotFoundError"
             /\ logged' = "Input file not found"
             /\ Return(1)
             /\ UNCHANGED <<rawdata, encoding>>
          \/ /\ outcome = "Exception"
             /\ logged' = "Error processing file"
             /\ Return(1)
             /\ UNCHANGED <<rawdata, encoding>>
    /\ UNCHANGED <<inputs, loadVars, mainVocabulary, randomize, document, text, idx, genCalls,
                   prevText, lastName, outFile, outContent>>

\* line 95: both files are opened; open(..., encoding=None) takes the
\* platform's encoding and does not raise for it.  Opening the output for
\* writing creates it or empties it.
RtOpen ==
    /\ pc = "rt_open"
    /\ \E outcome \in {"ok", "FileNotFoundError", "Exception"} :
          \/ /\ outcome = "ok"
             /\ outFile' = "empty"
             /\ pc' = "rt_read"
             /\ UNCHANGED <<rtResult, logged, exitCode>>
          \/ /\ outcome = "FileNotFoundError"
             /\ logged' = "Input file not found"
             /\ Return(1)
             /\ UNCHANGED outFile
          \/ /\ outcome = "Exception"
             /\ logged' = "Error processing file"
             /\ Return(1)
             /\ UNCHANGED outFile
    /\ UNCHANGED <<inputs, loadVars, mainVocabulary, randomize, rawdata, document, encoding,
                   text, idx, genCalls, prevText, lastName, outContent>>

\* line 96: infile.read() reads the file again and decodes it, or raises on
\* bytes the encoding does not cover.
RtRead ==
    /\ pc = "rt_read"
    /\ \/ /\ \E d \in Docs :
                /\ (d = <<>>) <=> (rawdata = "empty")
                /\ document' = d
                /\ text' = d
          /\ pc' = "rt_loop"
          /\ UNCHANGED <<rtResult, logged, exitCode>>
       \/ /\ rawdata = "bytes"
          /\ logged' = "Error processing file"
          /\ Return(1)
          /\ UNCHANGED <<document, text>>
    /\ UNCHANGED <<inputs, loadVars, mainVocabulary, randomize, rawdata, encoding, idx,
                   genCalls, prevText, lastName, outFile, outContent>>

\* The entry the loop is at: dict iteration follows insertion order.
Entry == mainVocabulary.dict[idx + 1]

InLoop == pc = "rt_loop" /\ idx < Len(mainVocabulary.dict)

RECURSIVE ReplaceEachFrom(_, _, _, _, _)
ReplaceEachFrom(s, old, first, rest, i) ==
    IF i > Len(s) THEN <<>>
    ELSE IF i + Len(old) - 1 <= Len(s) /\ SubSeq(s, i, i + Len(old) - 1) = old
         THEN first \o ReplaceEachFrom(s, old, rest, rest, i + Len(old))
         ELSE <<s[i]>> \o ReplaceEachFrom(s, old, first, rest, i + 1)

RECURSIVE CountFrom(_, _, _)
CountFrom(s, old, i) ==
    IF i > Len(s) THEN 0
    ELSE IF i + Len(old) - 1 <= Len(s) /\ SubSeq(s, i, i + Len(old) - 1) = old
         THEN 1 + CountFrom(s, old, i + Len(old))
         ELSE CountFrom(s, old, i + 1)

\* A loop body that asks the generator again for every occurrence.
RtRandomStepPerOccurrence ==
    /\ InLoop
    /\ randomize
    /\ Entry[2] = None
    /\ \E first \in FakeNames, rest \in FakeNames :
          /\ text' = ReplaceEachFrom(text, Entry[1], first, rest, 1)
          /\ lastName' = first
    /\ genCalls' = genCalls + CountFrom(text, Entry[1], 1)
    /\ prevText' = text
    /\ idx' = idx + 1
    /\ UNCHANGED <<inputs, pc, loadVars, mainVocabulary, randomize, rawdata, document, encoding, outFile,
                   outContent, rtResult, logged, exitCode>>

\* lines 99-101: text = text.replace(sensitive_term, fake.name())
RtRandomStep ==
    /\ InLoop
    /\ randomize
    /\ Entry[2] = None
    /\ \E name \in FakeNames :
          /\ text' = Replace(text, Entry[1], name)
          /\ lastName' = name
    /\ genCalls' = genCalls + 1
    /\ prevText' = text
    /\ idx' = idx + 1
    /\ UNCHANGED <<inputs, pc, loadVars, mainVocabulary, randomize, rawdata, document, encoding, outFile,
                   outContent, rtResult, logged, exitCode>>

\* lines 102-104: an entry with a replacement while randomizing; the return
\* leaves the with block, which closes the output file as opened.
RtConfigError ==
    /\ InLoop
    /\ randomize
    /\ Entry[2] # None
    /\ logged' = "Vocabulary must only contain sensitive terms when using --randomize"
    /\ Return(1)
    /\ UNCHANGED <<inputs, loadVars, mainVocabulary, randomize, rawdata, document, encoding, text, idx,
                   genCalls, prevText, lastName, outFile, outContent>>

\* lines 107-108: text = text.replace(sensitive_term, replacement_term)
RtLiteralStep ==
    /\ InLoop
    /\ ~randomize
    /\ Entry[2] # None
    /\ text' = Replace(text, Entry[1], Entry[2])
    /\ idx' = idx + 1
    /\ UNCHANGED <<inputs, pc, loadVars, mainVocabulary, randomize, rawdata, document, encoding, genCalls,
                   prevText, lastName, outFile, outContent, rtResult, logged, exitCode>>

\* line 108 with replacement_term None: str.replace raises TypeError, which
\* lines 116-118 catch.
RtLiteralNone ==
    /\ InLoop
    /\ ~randomize
    /\ Entry[2] = None
    /\ logged' = "Error processing file"
    /\ Return(1)
    /\ UNCHANGED <<inputs, loadVars, mainVocabulary, randomize, rawdata, document, encoding, text, idx,
                   genCalls, prevText, lastName, outFile, outContent>>

\* lines 110-112, after the loop: the text is written and the files closed;
\* or the write or the close raises (lines 116-118) with the file part written.
RtWrite ==
    /\ pc = "rt_loop"
    /\ idx = Len(mainVocabulary.dict)
    /\ \/ /\ outFile' = "written"
          /\ outContent' = text
          /\ logged' = "Successfully replaced terms"
          /\ Return(0)
       \/ /\ outFile' = "partial"
          /\ logged' = "Error processing file"
          /\ Return(1)
          /\ UNCHANGED outContent
    /\ UNCHANGED <<inputs, loadVars, mainVocabulary, randomize, rawdata, document, encoding, text, idx,
                   genCalls, prevText, lastName>>

Next ==
    \/ MainCheckInput
    \/ MainCheckVocabulary
    \/ LoadOpen
    \/ LoadLine
    \/ LoadReadError
    \/ LoadReturn
    \/ MainAfterLoad
    \/ RtDetect
    \/ RtOpen
    \/ RtRead
    \/ RtRandomStep
    \/ RtConfigError
    \/ RtLiteralStep
    \/ RtLiteralNone
    \/ RtWrite

Spec == Init /\ [][Next]_vars

\* ------------------------------------------------------------ properties
\* "Every non-overlapping occurrence, scanned left to right", stated without
\* a scan: position i starts a replaced occurrence when old is found there
\* and no replaced occurrence that starts earlier reaches i.
Occurs(s, old, i) ==
    /\ i >= 1
    /\ i + Len(old) - 1 <= Len(s)
    /\ SubSeq(s, i, i + Len(old) - 1) = old

\* The first position from which an occurrence of old reaches position i.
Reach(old, i) == IF i - Len(old) + 1 > 1 THEN i - Len(old) + 1 ELSE 1

RECURSIVE Replaced(_, _, _)
Replaced(s, old, i) ==
    /\ Occurs(s, old, i)
    /\ \A j \in Reach(old, i)..(i - 1) : ~Replaced(s, old, j)

Covered(s, old, i) ==
    \E j \in Reach(old, i)..i : Replaced(s, old, j)

Piece(s, old, new, i) ==
    (IF Replaced(s, old, i) THEN new ELSE <<>>)
    \o (IF i <= Len(s) /\ ~Covered(s, old, i) THEN <<s[i]>> ELSE <<>>)

RECURSIVE Pieces(_, _, _, _, _)
Pieces(s, old, new, lo, hi) ==
    IF lo = hi THEN Piece(s, old, new, lo)
    ELSE LET mid == (lo + hi) \div 2
         IN Pieces(s, old, new, lo, mid) \o Pieces(s, old, new, mid + 1, hi)

AllReplaced(s, old, new) == Pieces(s, old, new, 1, Len(s) + 1)

Occurrences(s, old) == Cardinality({i \in 1..(Len(s) + 1) : Replaced(s, old, i)})

\* The entries d[1..n] applied one after another, each to the result of the
\* one before.
RECURSIVE AppliedInOrder(_, _, _)
AppliedInOrder(s, d, n) ==
    IF n = 0 THEN s
    ELSE AllReplaced(AppliedInOrder(s, d, n - 1), d[n][1], d[n][2])

Reversed(d) == [i \in DOMAIN d |-> d[Len(d) + 1 - i]]

Entries(d) == {d[i] : i \in DOMAIN d}

HasConcrete(d) == \E i \in DOMAIN d : d[i][2] # None

ExampleTerm == <<"J", "o", "h", "n", " ", "S", "m", "i", "t", "h">>
ExampleReplacement == <<"R", "E", "D", "A", "C", "T", "E", "D">>
ExampleOut == <<"H", "e", "l", "l", "o", ",", " ", "R", "E", "D", "A", "C", "T", "E", "D", ".", " ", "R", "E", "D", "A", "C", "T", "E", "D", " ", "s", "a", "i", "d", " ", "h", "i", ".">>

LoadErrors == {"Vocabulary file not found", "Error loading vocabulary file"}

ErrorMessages ==
    LoadErrors \cup
    {"Input file does not exist", "Vocabulary file does not exist", "Input file not found",
     "Error processing file",
     "Vocabulary must only contain sensitive terms when using --randomize"}

\* C1: in randomized mode, when some vocabulary entry carries a concrete
\* replacement, replace_terms returns 1, and when it returns for that reason
\* the output path is left as it was: not created, not opened for writing,
\* not truncated.
C1_NoOutputOnConfigError ==
    (pc = "exit" /\ rtResult # -1 /\ randomize /\ HasConcrete(mainVocabulary.dict))
    => /\ rtResult = 1
       /\ logged = "Vocabulary must only contain sensitive terms when using --randomize"
            => outFile = "untouched"

\* C2: in literal mode the loop passes over an entry whose replacement is
\* None: no substitution, no abort, the loop goes on to the next entry.
C2_LiteralSkipsRandomMarker ==
    [][(InLoop /\ ~randomize /\ Entry[2] = None)
        => (pc' = "rt_loop" /\ idx' = idx + 1 /\ text' = text /\ rtResult' = rtResult)]_vars

\* C3: in literal mode the text written is the document with the entries
\* applied one after another in the vocabulary's iteration order, each to the
\* result of the one before and each replacing every non-overlapping
\* occurrence found from the left; after n entries the text in hand is the
\* document with the first n applied; and the John Smith example gives the
\* stated output.
C3_LiteralSequential ==
    /\ (pc = "rt_loop" /\ ~randomize)
        => text = AppliedInOrder(document, mainVocabulary.dict, idx)
    /\ (outFile = "written" /\ ~randomize)
        => outContent = AppliedInOrder(document, mainVocabulary.dict, Len(mainVocabulary.dict))
    /\ (outFile = "written" /\ ~randomize /\ document = ExampleDoc
            /\ mainVocabulary.dict = <<(<<ExampleTerm, ExampleReplacement>>)>>)
        => outContent = ExampleOut

\* C3 witness: a literal run over two concrete entries whose written result
\* differs from what the opposite order of the same entries would give.
C3_Witness ==
    /\ outFile = "written"
    /\ ~randomize
    /\ Len(mainVocabulary.dict) = 2
    /\ outContent # document
    /\ outContent # AppliedInOrder(document, Reversed(mainVocabulary.dict), 2)

\* C4: in randomized mode the generator has been called once for each entry
\* passed, and the text after an entry is the text before it with every
\* occurrence of the term replaced by the one name that call returned.
C4_OneNamePerTerm ==
    (randomize /\ pc \in {"rt_loop", "exit"})
    => /\ genCalls = idx
       /\ idx >= 1 => text = AllReplaced(prevText, mainVocabulary.dict[idx][1], lastName)
       /\ outFile = "written" => genCalls = Cardinality(DictKeys(mainVocabulary.dict))

\* C4 witness: a finished randomized run over two terms whose last term
\* occurred at least twice in the text when its entry was processed.
C4_Witness ==
    /\ randomize
    /\ outFile = "written"
    /\ idx = 2
    /\ Occurrences(prevText, mainVocabulary.dict[idx][1]) >= 2

\* C5: the dict load_vocabulary builds and returns holds, for each term named
\* by a single-field or two-field line, the value of the last such line (None
\* for a single-field line, the trimmed second field, the empty string
\* included, for a two-field line) and nothing else; the line just handled,
\* when it is such a line, is in it.
C5_LoadedMapping ==
    /\ Entries(vocabulary) = lastWins
    /\ Cardinality(DictKeys(vocabulary)) = Len(vocabulary)
    /\ (pc = "load_loop" /\ nread > 0) => LineEntry(line) \subseteq Entries(vocabulary)
    /\ mainVocabulary.kind = "dict" => mainVocabulary.dict = vocabulary

\* C5 witness: a returned dict after two kept lines naming the same term, the
\* last of them a two-field line with a non-empty replacement.
C5_Witness ==
    /\ mainVocabulary.kind = "dict"
    /\ nkept = 2
    /\ Len(mainVocabulary.dict) = 1
    /\ mainVocabulary.dict[1][2] \notin {None, <<>>}

\* C6: a line with more than two comma-separated fields adds no entry, is
\* answered by exactly one warning and does not end the load; any other line
\* draws no warning and, when it names an entry, that entry is loaded.
C6_MalformedLineSkipped ==
    [][(pc = "load_loop" /\ nread' = nread + 1)
        => IF IsMalformed(line')
           THEN /\ vocabulary' = vocabulary
                /\ warnings' = warnings + 1
                /\ pc' = "load_loop"
                /\ mainVocabulary' = mainVocabulary
           ELSE /\ warnings' = warnings
                /\ LineEntry(line') \subseteq Entries(vocabulary')]_vars

\* C6 witness: a valid line loaded right after a malformed line was skipped
\* with its warning.
C6_Witness ==
    /\ pc = "load_loop"
    /\ nread = 2
    /\ warnings = 1
    /\ LineEntry(line) # {}
    /\ Entries(vocabulary) = LineEntry(line)

C8_NoEncodingFails ==
    (encoding = "None" /\ pc = "exit")
    => (rtResult # 0 /\ outFile # "written")

\* C9: when the load fails, load_vocabulary returns None, not the dict it
\* had filled so far; main exits with 1, replace_terms is not called and the
\* output file is not touched.
C9_FailedLoad ==
    (logged \in LoadErrors \/ mainVocabulary.kind = "None")
    => /\ mainVocabulary = NoDict
       /\ logged \in LoadErrors
       /\ pc \in {"main_loaded", "exit"}
       /\ pc = "exit" => exitCode = 1
       /\ rtResult = -1
       /\ outFile = "untouched"

\* C9 witness: a run ended by a load that failed after it had stored entries.
C9_Witness ==
    /\ pc = "exit"
    /\ mainVocabulary.kind = "None"
    /\ vocabulary # <<>>

\* C10: every key of a dict load_vocabulary returns is a non-empty string,
\* so the substitution loop never meets an empty sensitive term.
C10_KeysNonEmpty ==
    /\ mainVocabulary.kind = "dict" => <<>> \notin DictKeys(mainVocabulary.dict)
    /\ InLoop => Entry[1] # <<>>

=============================================================================
